---- MODULE Spec2Model ----
(***************************************************************************)
(* A model of the book-sales-analytics repository.                         *)
(*                                                                         *)
(* Part 1: setup_analytics_data.sh, the one-shot generate / upload /       *)
(* schema / load script, run any number of times against one S3 bucket and *)
(* one Redshift warehouse.                                                 *)
(* Part 2: the aggregate views the schema step creates, as functions of    *)
(* the warehouse tables.                                                   *)
(***************************************************************************)
EXTENDS Integers, Sequences, FiniteSets, TLC

(***************************************************************************)
(* Bounds of the model.                                                    *)
(***************************************************************************)
\* the longest option list (arguments after the two positional ones)
MaxArgs == 3
\* how many times the script is run against the same bucket and warehouse
MaxRuns == 2
\* how many calendar days the runs span
MaxDays == 2
\* NUM_BOOKS and NUM_SALES of the generator (500 and 10000), scaled down
NUM_BOOKS == 2
NUM_SALES == 2
\* seeds of the generator's random source
MaxSeed == 1
\* rows of fact_sales and of dim_book when the views are checked on tables
\* of any content
MaxRows == 2
MaxDimRows == 1

VARIABLES
    \* ---- the shell process ----
    pc,           \* the script's position
    argv,         \* the command line the run was started with
    args,         \* the positional parameters "$@"
    env,          \* the shell variables the script sets
    exitStatus,   \* the status the script ended with, -1 while it runs
    pkgs,         \* whether faker, boto3 and redshift_connector can be imported
    \* ---- the Python blocks' locals ----
    upl,          \* upload block: today
    ld,           \* load block: today, conn
    \* ---- what the run did (history) ----
    phaseLog,     \* the phases whose block was started, in order
    uploadLog,    \* one record per upload_to_s3 call
    loadLog,      \* one record per load_data_to_redshift call
    sqlLog,       \* the statements sent to Redshift in this run
    \* ---- the world the script acts on ----
    runs,         \* runs started so far
    ngen,         \* generations written so far (stands for the fresh uuid4 values)
    today,        \* the calendar day
    files,        \* data/books.csv and data/sales.csv
    s3,           \* the bucket: key -> object
    tables,       \* the warehouse: whether the tables exist, and their rows
    dropped,      \* fact_sales rows removed from the warehouse so far (history)
    \* ---- a query session on the warehouse ----
    result,       \* the rows the last SELECT on a view returned
    \* ---- the dashboard frontend in a browser ----
    page,         \* the page component that is mounted
    srv,          \* the bodies the API may answer with, per endpoint
    ui,           \* the mounted component's state (useState)
    cycles,       \* the invocations of the page's async function, in order
    net,          \* the HTTP requests in flight
    clock,        \* the browser's clock (new Date())
    last          \* the last settled request and what the service made of it

vars == <<pc, argv, args, env, exitStatus, pkgs, upl, ld, phaseLog, uploadLog, loadLog,
          sqlLog, runs, ngen, today, files, s3, tables, dropped, result,
          page, srv, ui, cycles, net, clock, last>>

shellVars == <<pc, argv, args, env, exitStatus>>
pyVars    == <<upl, ld>>
logVars   == <<phaseLog, uploadLog, loadLog, sqlLog>>
worldVars == <<runs, ngen, today, files, s3, tables>>
webVars   == <<page, srv, ui, cycles, net, clock, last>>

(***************************************************************************)
(* Command lines.                                                          *)
(***************************************************************************)
ValueOptions == {"--database", "--user", "--password", "--iam-role"}
FlagOptions  == {"--skip-generate", "--skip-upload", "--skip-redshift"}

\* the words a command line is made of: the options, a word that is no
\* option, a value, and the empty string
Tokens == ValueOptions \cup FlagOptions \cup {"--bogus", "arn", ""}

\* the shell variable a value-taking option assigns
OptionVar(o) ==
    CASE o = "--database" -> "REDSHIFT_DB"
      [] o = "--user"     -> "REDSHIFT_USER"
      [] o = "--password" -> "REDSHIFT_PASSWORD"
      [] o = "--iam-role" -> "IAM_ROLE"

\* the shell variable a flag sets to true
FlagVar(o) ==
    CASE o = "--skip-generate" -> "SKIP_GENERATE"
      [] o = "--skip-upload"   -> "SKIP_UPLOAD"
      [] o = "--skip-redshift" -> "SKIP_REDSHIFT"

\* sequences over S of length 0..n
SeqsUpTo(S, n) == UNION {[1..k -> S] : k \in 0..n}

\* every command line: fewer than two arguments, or two positional ones
\* followed by up to MaxArgs words
CommandLines ==
    {<<>>, <<"bucket">>}
    \cup {<<"bucket", "host">> \o o : o \in SeqsUpTo(Tokens, MaxArgs)}

\* "$2" when the positional parameters are a: empty when there is none
Arg2(a) == IF Len(a) >= 2 THEN a[2] ELSE ""

\* shift n: drops n parameters; when n exceeds "$#" bash's shift fails and
\* changes nothing
Shift(a, n) == IF n > Len(a) THEN a ELSE SubSeq(a, n + 1, Len(a))

\* the shell variables before the script has assigned any
NoEnv ==
    [S3_BUCKET |-> "", REDSHIFT_HOST |-> "", REDSHIFT_DB |-> "",
     REDSHIFT_USER |-> "", REDSHIFT_PASSWORD |-> "", IAM_ROLE |-> "",
     SKIP_GENERATE |-> FALSE, SKIP_UPLOAD |-> FALSE, SKIP_REDSHIFT |-> FALSE]

(***************************************************************************)
(* Data: the CSV files, the bucket and the warehouse tables.               *)
(***************************************************************************)
\* two of the generator's forty genres and two of its ten regions
book_genres == {"Fiction", "Science Fiction"}
regions     == {"North America", "South America"}

\* random.choices([1, 2, 3, 4, 5], ...)
Quantities == {1, 2, 3, 4, 5}

\* a timestamp; DATE_TRUNC keeps a prefix of its fields
SaleDates == [month : {1, 2}, day : {1, 2}, hour : {0, 12}]

\* round(Decimal(n) / d, 0) for n >= 0, d > 0: ties go to the even neighbour
RoundHalfEven(n, d) ==
    LET q == n \div d
        r == n % d
    IN  IF 2 * r < d THEN q
        ELSE IF 2 * r > d THEN q + 1
        ELSE IF q % 2 = 0 THEN q ELSE q + 1

\* the k-th draw, reduced to 0..n-1, of the random source seeded with seed
Rnd(seed, k, n) == (seed * (k + 1) + k \div 8) % n

\* an element of a finite set of numbers or strings, picked by a draw
Pick(S, seed, k) ==
    LET RECURSIVE Nth(_, _)
        Nth(T, j) == LET x == CHOOSE y \in T : TRUE
                     IN  IF j = 0 THEN x ELSE Nth(T \ {x}, j - 1)
    IN  Nth(S, Rnd(seed, k, Cardinality(S)))

\* one row of books.csv: generation g, book i. Faker's free text is
\* represented by <<g, i>>; prices are in cents, 4.99 to 59.99
BookRow(g, seed, i) ==
    [book_id        |-> i,
     title          |-> <<g, i>>,
     author         |-> <<g, i>>,
     isbn           |-> <<g, i>>,
     published_date |-> <<g, i>>,
     publisher      |-> <<g, i>>,
     genre          |-> Pick(book_genres, seed, i),
     price          |-> 499 + Rnd(seed, i, 5501)]

\* (mutant) book_ids counted from 0, as range(NUM_BOOKS) would
GenBooksFromZero(g, seed) == [i \in 1..NUM_BOOKS |-> BookRow(g, seed, i - 1)]

\* the generator's list books
GenBooks(g, seed) == [i \in 1..NUM_BOOKS |-> BookRow(g, seed, i)]

\* round(Decimal(price) * quantity * (1 - discount), 2), discount in percent
SaleAmount(price, quantity, discount) ==
    RoundHalfEven(price * quantity * (100 - discount), 100)

\* one row of sales.csv: a random book of books, a quantity, a date within
\* the range, a fresh uuid4 (represented by <<g, i>>), a region, and the
\* amount with a 10-40% discount in 30% of the draws
SaleRow(g, seed, i, books) ==
    LET book     == books[Rnd(seed, 8 * i, Len(books)) + 1]
        quantity == Pick(Quantities, seed, 8 * i + 1)
        discount == IF Rnd(seed, 8 * i + 2, 10) < 3
                    THEN 10 + Rnd(seed, 8 * i + 3, 31) ELSE 0
    IN  [sale_id     |-> i,
         book_id     |-> book.book_id,
         quantity    |-> quantity,
         sale_date   |-> [month |-> 1 + Rnd(seed, 8 * i + 4, 2),
                          day   |-> 1 + Rnd(seed, 8 * i + 5, 2),
                          hour  |-> 12 * Rnd(seed, 8 * i + 6, 2)],
         customer_id |-> <<g, i>>,
         region      |-> Pick(regions, seed, 8 * i + 7),
         sale_amount |-> SaleAmount(book.price, quantity, discount)]

GenSales(g, seed) ==
    [i \in 1..NUM_SALES |-> SaleRow(g, seed, i, GenBooks(g, seed))]

booksHeader == <<"book_id", "title", "author", "isbn", "published_date",
                 "publisher", "genre", "price">>
salesHeader == <<"sale_id", "book_id", "quantity", "sale_date", "customer_id",
                 "region", "sale_amount">>

\* a CSV file or S3 object: a header line and the data rows
NoFile == [exists |-> FALSE, header |-> <<>>, rows |-> <<>>]
CsvFile(header, rows) == [exists |-> TRUE, header |-> header, rows |-> rows]

\* os.path.basename of the two local paths
Basename(f) == IF f = "books" THEN "books.csv" ELSE "sales.csv"

\* upload_to_s3's key: f"{s3_prefix}/{filename}", the prefix being
\* f"books/{today}" or f"sales/{today}"
UploadKey(f, day) == <<f, day, Basename(f)>>

\* the load block's books_prefix and sales_prefix
LoadKey(f, day) ==
    IF f = "books" THEN <<"books", day, "books.csv">>
                   ELSE <<"sales", day, "sales.csv">>

\* the keys the script writes or reads
S3Keys ==
    {UploadKey(f, d) : f \in {"books", "sales"}, d \in 1..MaxDays}
    \cup {LoadKey(f, d) : f \in {"books", "sales"}, d \in 1..MaxDays}

\* the table a file is loaded into
TableOf(f) == IF f = "books" THEN "dim_book" ELSE "fact_sales"

NoTables == [exist |-> FALSE, dim_book |-> <<>>, fact_sales |-> <<>>]

(***************************************************************************)
(* The script, one action per step.                                        *)
(***************************************************************************)
\* no browser has the dashboard open
NoBrowser ==
    /\ page = "none"
    /\ srv = <<>>
    /\ ui = <<>>
    /\ cycles = <<>>
    /\ net = {}
    /\ clock = 0
    /\ last = <<>>

\* everything but the command line, before the first run: no data
\* directory, an empty bucket, a warehouse without the analytics schema
InitWorld ==
    /\ pc = "commands"
    /\ env = NoEnv
    /\ exitStatus = -1
    /\ pkgs = FALSE
    /\ upl = [today |-> 0]
    /\ ld = [today |-> 0, conn |-> "none"]
    /\ phaseLog = <<>>
    /\ uploadLog = <<>>
    /\ loadLog = <<>>
    /\ sqlLog = <<>>
    /\ runs = 1
    /\ ngen = 0
    /\ today = 1
    /\ files = [books |-> NoFile, sales |-> NoFile]
    /\ s3 = [k \in S3Keys |-> NoFile]
    /\ tables = NoTables
    /\ dropped = 0
    /\ result = [view |-> "none", rows |-> {}]
    /\ NoBrowser

\* the command lines of the runs that follow one another: the IAM role and
\* any combination of the three skip flags
RunLines ==
    {<<"bucket", "host", "--iam-role", "arn">> \o g \o u \o r :
        g \in {<<>>, <<"--skip-generate">>},
        u \in {<<>>, <<"--skip-upload">>},
        r \in {<<>>, <<"--skip-redshift">>}}

Init == InitWorld /\ argv \in RunLines /\ args = argv

\* one run, started with any command line
InitArgs == InitWorld /\ argv \in CommandLines /\ args = argv

\* exit 1
Exit1 ==
    /\ pc' = "exited"
    /\ exitStatus' = 1

\* command -v python, command -v pip: abort when either is missing
CheckCommands ==
    /\ pc = "commands"
    /\ \E found \in BOOLEAN :
          IF found THEN pc' = "argcount" /\ exitStatus' = exitStatus ELSE Exit1
    /\ UNCHANGED <<argv, args, env, pkgs, pyVars, logVars, worldVars, dropped, result, webVars>>

\* the argument count check, the two positional arguments and the defaults
CheckArgCount ==
    /\ pc = "argcount"
    /\ IF Len(args) < 2
       THEN Exit1 /\ UNCHANGED <<argv, args, env>>
       ELSE /\ argv' = argv
            /\ env' = [NoEnv EXCEPT !.S3_BUCKET = args[1],
                                    !.REDSHIFT_HOST = args[2],
                                    !.REDSHIFT_DB = "analytics",
                                    !.REDSHIFT_USER = "admin"]
            /\ args' = Shift(args, 2)
            /\ pc' = "parse"
            /\ exitStatus' = exitStatus
    /\ UNCHANGED <<pkgs, pyVars, logVars, worldVars, dropped, result, webVars>>

\* what one iteration of the option loop does to the shell variables
ParsedEnv(e, a) ==
    IF a[1] \in ValueOptions THEN [e EXCEPT ![OptionVar(a[1])] = Arg2(a)]
    ELSE IF a[1] \in FlagOptions THEN [e EXCEPT ![FlagVar(a[1])] = TRUE]
    ELSE e

\* what one iteration of the option loop leaves of the parameters
ParsedArgs(a) ==
    IF a[1] \in ValueOptions THEN Shift(a, 2)
    ELSE IF a[1] \in FlagOptions THEN Shift(a, 1)
    ELSE a

\* (mutant) the loop shifts an unknown word away instead of exiting
ParseOptionIgnoringUnknown ==
    /\ pc = "parse"
    /\ IF Len(args) = 0
       THEN pc' = "password" /\ UNCHANGED <<argv, args, env, exitStatus>>
       ELSE /\ env' = ParsedEnv(env, args)
            /\ args' = IF args[1] \in ValueOptions \cup FlagOptions
                       THEN ParsedArgs(args) ELSE Shift(args, 1)
            /\ UNCHANGED <<pc, argv, exitStatus>>
    /\ UNCHANGED <<pkgs, pyVars, logVars, worldVars, dropped, result, webVars>>

\* while [ "$#" -gt 0 ]; do case "$1" in ... esac; done, one iteration
ParseOption ==
    /\ pc = "parse"
    /\ IF Len(args) = 0
       THEN pc' = "password" /\ UNCHANGED <<argv, args, env, exitStatus>>
       ELSE IF args[1] \in ValueOptions \cup FlagOptions
       THEN /\ env' = ParsedEnv(env, args)
            /\ args' = ParsedArgs(args)
            /\ UNCHANGED <<pc, argv, exitStatus>>
       ELSE Exit1 /\ UNCHANGED <<argv, args, env>>
    /\ UNCHANGED <<pkgs, pyVars, logVars, worldVars, dropped, result, webVars>>

\* what is typed at the password prompt; the script passes it on unread
TypedPasswords == {"typed"}

\* the password prompt: read -s takes whatever is typed
PromptPassword ==
    /\ pc = "password"
    /\ IF env.SKIP_REDSHIFT = FALSE /\ env.REDSHIFT_PASSWORD = ""
       THEN \E typed \in TypedPasswords :
               env' = [env EXCEPT !.REDSHIFT_PASSWORD = typed]
       ELSE env' = env
    /\ pc' = "iam"
    /\ UNCHANGED <<argv, args, exitStatus, pkgs, pyVars, logVars, worldVars, dropped, result, webVars>>

\* whether the IAM role check lets the run go on
IamRoleOk(e) == ~(e.SKIP_REDSHIFT = FALSE /\ e.IAM_ROLE = "")

CheckIamRole ==
    /\ pc = "iam"
    /\ IF IamRoleOk(env) THEN pc' = "pip" /\ exitStatus' = exitStatus ELSE Exit1
    /\ UNCHANGED <<argv, args, env, pkgs, pyVars, logVars, worldVars, dropped, result, webVars>>

\* pip install faker boto3 redshift-connector: its status is not looked at;
\* once installed the packages stay importable
PipInstall ==
    /\ pc = "pip"
    /\ \E installed \in BOOLEAN : pkgs' = (pkgs \/ installed)
    /\ pc' = "generate"
    /\ UNCHANGED <<argv, args, env, exitStatus, pyVars, logVars, worldVars, dropped, result, webVars>>

\* the generation block: books.csv and sales.csv are both rewritten
GeneratePhase ==
    /\ pc = "generate"
    /\ IF env.SKIP_GENERATE = FALSE
       THEN /\ phaseLog' = Append(phaseLog, "generate")
            /\ IF pkgs
               THEN \E seed \in 1..MaxSeed :
                       /\ ngen' = ngen + 1
                       /\ files' = [books |-> CsvFile(booksHeader, GenBooks(ngen + 1, seed)),
                                    sales |-> CsvFile(salesHeader, GenSales(ngen + 1, seed))]
               ELSE \* from faker import Faker raises before a file is opened
                    UNCHANGED <<ngen, files>>
       ELSE UNCHANGED <<phaseLog, ngen, files>>
    /\ pc' = "upload"
    /\ UNCHANGED <<argv, args, env, exitStatus, pkgs, pyVars, uploadLog, loadLog, sqlLog,
                   runs, today, s3, tables, dropped, result, webVars>>

\* the upload block up to today = datetime.now().strftime('%Y/%m/%d')
UploadPhase ==
    /\ pc = "upload"
    /\ IF env.SKIP_UPLOAD = FALSE
       THEN /\ phaseLog' = Append(phaseLog, "upload")
            /\ IF pkgs
               THEN upl' = [today |-> today] /\ pc' = "upload_books"
               ELSE \* import boto3 raises
                    upl' = upl /\ pc' = "schema"
       ELSE UNCHANGED <<phaseLog, upl>> /\ pc' = "schema"
    /\ UNCHANGED <<argv, args, env, exitStatus, pkgs, ld, uploadLog, loadLog, sqlLog,
                   worldVars, dropped, result, webVars>>

\* (mutant) the upload block ends with the first file
AfterUploadStoppingAtBooks(f) == "schema"

\* where the upload block goes after the file f
AfterUpload(f) == IF f = "books" THEN "upload_sales" ELSE "schema"

\* if os.path.exists(file): upload_to_s3(bucket_name, file, f"<f>/{today}").
\* upload_file either stores the object or raises; the except branch prints
\* and returns None
UploadFile(f) ==
    /\ pc = "upload_" \o f
    /\ IF files[f].exists
       THEN \E raised \in BOOLEAN :
               /\ s3' = IF raised THEN s3
                        ELSE [s3 EXCEPT ![UploadKey(f, upl.today)] = files[f]]
               /\ uploadLog' = Append(uploadLog,
                                  [file |-> f, key |-> UploadKey(f, upl.today),
                                   ret |-> IF raised THEN "None" ELSE "url"])
       ELSE UNCHANGED <<s3, uploadLog>>
    /\ pc' = AfterUpload(f)
    /\ UNCHANGED <<argv, args, env, exitStatus, pkgs, pyVars, phaseLog, loadLog, sqlLog,
                   runs, ngen, today, files, tables, dropped, result, webVars>>

UploadBooks == UploadFile("books")
UploadSales == UploadFile("sales")

\* (mutant) the schema block is run again when it has failed
AfterSchemaRetrying(status) == IF status = 0 THEN "load" ELSE "schema"

\* where the shell goes when the schema block has ended with the given
\* status: the script has no set -e and does not look at "$?"
AfterSchema(status) == "load"

\* the warehouse after the DDL batch: schema created if missing, both tables
\* dropped and created again, the five views replaced
AfterDdl(tbls) == [exist |-> TRUE, dim_book |-> <<>>, fact_sales |-> <<>>]

\* a statement sent to Redshift, and whether it succeeded
Statement(stmt, table, ok) == [stmt |-> stmt, table |-> table, ok |-> ok]

\* the schema block: connect, send the DDL as one statement batch, close.
\* Any exception ends the block with exit(1). The batch is applied whole or
\* not at all.
SchemaPhase ==
    /\ pc = "schema"
    /\ IF env.SKIP_REDSHIFT = FALSE
       THEN /\ phaseLog' = Append(phaseLog, "schema")
            /\ \E outcome \in IF pkgs THEN {"ok", "connect_error", "sql_error"}
                                      ELSE {"import_error"} :
                  /\ sqlLog' = IF outcome \in {"ok", "sql_error"}
                               THEN Append(sqlLog, Statement("DDL", "all", outcome = "ok"))
                               ELSE sqlLog
                  /\ tables' = IF outcome = "ok"
                               THEN AfterDdl(tables)
                               ELSE tables
                  /\ dropped' = IF outcome = "ok"
                                THEN dropped + Len(tables.fact_sales) ELSE dropped
                  /\ pc' = AfterSchema(IF outcome = "ok" THEN 0 ELSE 1)
       ELSE /\ pc' = "report"
            /\ UNCHANGED <<phaseLog, sqlLog, tables, dropped>>
    /\ UNCHANGED <<argv, args, env, exitStatus, pkgs, pyVars, uploadLog, loadLog,
                   runs, ngen, today, files, s3, result, webVars>>

\* the load block up to today = datetime.now().strftime('%Y/%m/%d'):
\* connect_to_redshift returns None on any exception and the block exits
LoadPhase ==
    /\ pc = "load"
    /\ phaseLog' = Append(phaseLog, "load")
    /\ \E outcome \in IF pkgs THEN {"ok", "connect_error"} ELSE {"import_error"} :
          IF outcome = "ok"
          THEN ld' = [today |-> today, conn |-> "open"] /\ pc' = "load_books"
          ELSE ld' = ld /\ pc' = "report"
    /\ UNCHANGED <<argv, args, env, exitStatus, pkgs, upl, uploadLog, loadLog, sqlLog,
                   worldVars, dropped, result, webVars>>

\* what one call of load_data_to_redshift can come to: head_object raises
\* (always when the key is absent), COPY raises (always when the table is
\* absent), SELECT COUNT(*) raises, or all three succeed
LoadOutcomes(key) ==
    {"head_error"}
    \cup (IF s3[key].exists THEN {"copy_error"} ELSE {})
    \cup (IF s3[key].exists /\ tables.exist THEN {"count_error", "ok"} ELSE {})

\* (mutant) the load replaces the rows of the table
CopyReplacing(tbls, table, object) ==
    [tbls EXCEPT ![table] = object.rows]

\* COPY table FROM 's3://bucket/key' ... CSV IGNOREHEADER 1: the data rows
\* of the object are appended to the table
CopyInto(tbls, table, object) ==
    [tbls EXCEPT ![table] = @ \o object.rows]

\* the statements load_data_to_redshift sends for an outcome
LoadStatements(table, outcome) ==
    CASE outcome = "head_error"  -> <<>>
      [] outcome = "copy_error"  -> <<Statement("COPY", table, FALSE)>>
      [] outcome = "count_error" -> <<Statement("COPY", table, TRUE),
                                      Statement("SELECT COUNT", table, FALSE)>>
      [] outcome = "ok"          -> <<Statement("COPY", table, TRUE),
                                      Statement("SELECT COUNT", table, TRUE)>>

\* a call load_data_to_redshift makes on the connection, the S3 client or
\* the cursor; key is the S3 key the call names, if it names one
CallOf(op, key, ok) == [op |-> op, key |-> key, ok |-> ok]

\* (mutant) cursor.close() is the last statement of the try block
load_data_to_redshift_closing_in_try(table, s3_path, outcome) ==
    LET sql == LoadStatements(table, outcome)
    IN  [calls |-> <<CallOf("conn.cursor", <<>>, TRUE),
                     CallOf("head_object", s3_path, outcome # "head_error")>>
                   \o [i \in 1..Len(sql) |->
                          CallOf(sql[i].stmt,
                                 IF sql[i].stmt = "COPY" THEN s3_path ELSE <<>>,
                                 sql[i].ok)]
                   \o IF outcome = "ok" THEN <<CallOf("cursor.close", <<>>, TRUE)>>
                                        ELSE <<>>,
         ret   |-> outcome = "ok"]

\* load_data_to_redshift(conn, s3_bucket, s3_path, table_name, iam_role), by
\* the calls it makes in order: conn.cursor() before the try, head_object on
\* s3_path, the statements it executes (the COPY reads s3_uri, built from
\* s3_path), and cursor.close() in the finally clause, which runs on every
\* way out of the try block; and by what it returns
load_data_to_redshift(table, s3_path, outcome) ==
    LET sql == LoadStatements(table, outcome)
    IN  [calls |-> <<CallOf("conn.cursor", <<>>, TRUE),
                     CallOf("head_object", s3_path, outcome # "head_error")>>
                   \o [i \in 1..Len(sql) |->
                          CallOf(sql[i].stmt,
                                 IF sql[i].stmt = "COPY" THEN s3_path ELSE <<>>,
                                 sql[i].ok)]
                   \o <<CallOf("cursor.close", <<>>, TRUE)>>,
         ret   |-> outcome = "ok"]

\* where the load block goes after the file f; conn.close() follows the
\* second call
AfterLoad(f) == IF f = "books" THEN "load_sales" ELSE "report"

\* load_data_to_redshift(conn, bucket_name, <f>_prefix, "analytics.<table>",
\* iam_role); its return value is dropped by the caller
LoadFile(f) ==
    /\ pc = "load_" \o f
    /\ \E outcome \in LoadOutcomes(LoadKey(f, ld.today)) :
          /\ tables' = IF outcome \in {"count_error", "ok"}
                       THEN CopyInto(tables, TableOf(f), s3[LoadKey(f, ld.today)])
                       ELSE tables
          /\ sqlLog' = sqlLog \o LoadStatements(TableOf(f), outcome)
          /\ loadLog' = Append(loadLog,
                LET call == load_data_to_redshift(TableOf(f), LoadKey(f, ld.today), outcome)
                IN  [table |-> TableOf(f),
                     key   |-> LoadKey(f, ld.today),
                     head  |-> outcome # "head_error",
                     ret   |-> call.ret,
                     calls |-> call.calls])
    /\ pc' = AfterLoad(f)
    /\ ld' = IF AfterLoad(f) = "report" THEN [ld EXCEPT !.conn = "closed"] ELSE ld
    /\ UNCHANGED <<argv, args, env, exitStatus, pkgs, upl, phaseLog, uploadLog,
                   runs, ngen, today, files, s3, dropped, result, webVars>>

LoadBooks == LoadFile("books")
LoadSales == LoadFile("sales")

\* echo "Setup complete!" and the rest: the script ends with status 0
Report ==
    /\ pc = "report"
    /\ pc' = "done"
    /\ exitStatus' = 0
    /\ UNCHANGED <<argv, args, env, pkgs, pyVars, logVars, worldVars, dropped, result, webVars>>

\* the script is started again, on the same machine, bucket and warehouse
NewRun ==
    /\ pc \in {"done", "exited"}
    /\ runs < MaxRuns
    /\ runs' = runs + 1
    /\ argv' \in RunLines
    /\ args' = argv'
    /\ pc' = "commands"
    /\ env' = NoEnv
    /\ exitStatus' = -1
    /\ upl' = [today |-> 0]
    /\ ld' = [today |-> 0, conn |-> "none"]
    /\ phaseLog' = <<>>
    /\ uploadLog' = <<>>
    /\ loadLog' = <<>>
    /\ sqlLog' = <<>>
    /\ UNCHANGED <<pkgs, ngen, today, files, s3, tables, dropped, result, webVars>>

\* the calendar day changes, whatever the script is doing
Midnight ==
    /\ today < MaxDays
    /\ today' = today + 1
    /\ UNCHANGED <<shellVars, pkgs, pyVars, logVars, runs, ngen, files, s3, tables,
                   dropped, result, webVars>>

RunStep ==
    \/ CheckCommands
    \/ CheckArgCount
    \/ ParseOption
    \/ PromptPassword
    \/ CheckIamRole
    \/ PipInstall
    \/ GeneratePhase
    \/ UploadPhase
    \/ UploadBooks
    \/ UploadSales
    \/ SchemaPhase
    \/ LoadPhase
    \/ LoadBooks
    \/ LoadSales
    \/ Report

Next == RunStep \/ NewRun \/ Midnight

\* runs of the script following one another
Spec == Init /\ [][Next]_vars

\* one run from any command line
SpecArgs == InitArgs /\ [][RunStep]_vars

\* one run from any command line, the shell taking a step whenever it can
SpecArgsFair == InitArgs /\ [][RunStep]_vars /\ WF_vars(RunStep)

(***************************************************************************)
(* The aggregate views of the DDL batch, as functions of the tables. A     *)
(* view's rows are a set: ORDER BY only arranges them.                     *)
(***************************************************************************)
\* DATE_TRUNC('day', sale_date)::DATE and DATE_TRUNC('month', sale_date)::DATE
TruncDay(ts)   == [month |-> ts.month, day |-> ts.day]
TruncMonth(ts) == [month |-> ts.month, day |-> 1]

\* SUM over a group: S holds one pair <<member, value>> for each member
RECURSIVE SumValues(_)
SumValues(S) ==
    IF S = {} THEN 0
    ELSE LET p == CHOOSE x \in S : TRUE
         IN  p[2] + SumValues(S \ {p})

\* SUM(col) over the rows of table t at the indices I
SumCol(t, I, col) == SumValues({<<i, t[i][col]>> : i \in I})

\* (mutant) the view joins dim_book, as top_books and sales_by_genre do
SalesByRegionOfKnownBooks(tbls) ==
    LET f == tbls.fact_sales
        d == tbls.dim_book
        J == {p \in (1..Len(d)) \X (1..Len(f)) : d[p[1]].book_id = f[p[2]].book_id}
        Group(k) == {p \in J : f[p[2]].region = k}
    IN  {[region            |-> k,
          total_revenue     |-> SumValues({<<p, f[p[2]].sale_amount>> : p \in Group(k)}),
          transaction_count |-> Cardinality(Group(k)),
          books_sold        |-> SumValues({<<p, f[p[2]].quantity>> : p \in Group(k)})]
         : k \in {f[p[2]].region : p \in J}}

\* (mutant) the view counts the distinct books sold, not the sales
MonthlySalesCountingBooks(tbls) ==
    LET f == tbls.fact_sales
        Group(k) == {i \in 1..Len(f) : TruncMonth(f[i].sale_date) = k}
    IN  {[month            |-> k,
          num_sales        |-> Cardinality({f[i].book_id : i \in Group(k)}),
          total_books_sold |-> SumCol(f, Group(k), "quantity"),
          total_revenue    |-> SumCol(f, Group(k), "sale_amount")]
         : k \in {TruncMonth(f[i].sale_date) : i \in 1..Len(f)}}

\* analytics.sales_by_day
SalesByDay(tbls) ==
    LET f == tbls.fact_sales
        Group(k) == {i \in 1..Len(f) : TruncDay(f[i].sale_date) = k}
    IN  {[day              |-> k,
          num_sales        |-> Cardinality(Group(k)),
          total_books_sold |-> SumCol(f, Group(k), "quantity"),
          total_revenue    |-> SumCol(f, Group(k), "sale_amount")]
         : k \in {TruncDay(f[i].sale_date) : i \in 1..Len(f)}}

\* analytics.sales_by_region
SalesByRegion(tbls) ==
    LET f == tbls.fact_sales
        Group(k) == {i \in 1..Len(f) : f[i].region = k}
    IN  {[region            |-> k,
          total_revenue     |-> SumCol(f, Group(k), "sale_amount"),
          transaction_count |-> Cardinality(Group(k)),
          books_sold        |-> SumCol(f, Group(k), "quantity")]
         : k \in {f[i].region : i \in 1..Len(f)}}

\* dim_book b JOIN fact_sales s ON b.book_id = s.book_id: pairs of indices
BookSales(tbls) ==
    {p \in (1..Len(tbls.dim_book)) \X (1..Len(tbls.fact_sales)) :
        tbls.dim_book[p[1]].book_id = tbls.fact_sales[p[2]].book_id}

\* analytics.top_books
TopBooks(tbls) ==
    LET f == tbls.fact_sales
        d == tbls.dim_book
        Key(p) == [book_id |-> d[p[1]].book_id, title |-> d[p[1]].title,
                   author |-> d[p[1]].author, genre |-> d[p[1]].genre]
        Group(k) == {p \in BookSales(tbls) : Key(p) = k}
    IN  {[book_id        |-> k.book_id,
          title          |-> k.title,
          author         |-> k.author,
          genre          |-> k.genre,
          num_sales      |-> Cardinality(Group(k)),
          total_quantity |-> SumValues({<<p, f[p[2]].quantity>> : p \in Group(k)}),
          total_revenue  |-> SumValues({<<p, f[p[2]].sale_amount>> : p \in Group(k)})]
         : k \in {Key(p) : p \in BookSales(tbls)}}

\* analytics.sales_by_genre
SalesByGenre(tbls) ==
    LET f == tbls.fact_sales
        d == tbls.dim_book
        Group(k) == {p \in BookSales(tbls) : d[p[1]].genre = k}
    IN  {[genre          |-> k,
          num_sales      |-> Cardinality(Group(k)),
          total_quantity |-> SumValues({<<p, f[p[2]].quantity>> : p \in Group(k)}),
          total_revenue  |-> SumValues({<<p, f[p[2]].sale_amount>> : p \in Group(k)})]
         : k \in {d[p[1]].genre : p \in BookSales(tbls)}}

\* analytics.monthly_sales
MonthlySales(tbls) ==
    LET f == tbls.fact_sales
        Group(k) == {i \in 1..Len(f) : TruncMonth(f[i].sale_date) = k}
    IN  {[month            |-> k,
          num_sales        |-> Cardinality(Group(k)),
          total_books_sold |-> SumCol(f, Group(k), "quantity"),
          total_revenue    |-> SumCol(f, Group(k), "sale_amount")]
         : k \in {TruncMonth(f[i].sale_date) : i \in 1..Len(f)}}

ViewNames == {"sales_by_day", "sales_by_region", "top_books", "sales_by_genre",
              "monthly_sales"}

\* SELECT * FROM analytics.<v>
View(v, tbls) ==
    CASE v = "sales_by_day"    -> SalesByDay(tbls)
      [] v = "sales_by_region" -> SalesByRegion(tbls)
      [] v = "top_books"       -> TopBooks(tbls)
      [] v = "sales_by_genre"  -> SalesByGenre(tbls)
      [] v = "monthly_sales"   -> MonthlySales(tbls)

\* rows a COPY can have put into fact_sales: either of two books, one copy
\* or five, three moments of which two share a month, either region
SampleSales ==
    {[sale_id     |-> 0,
      book_id     |-> b,
      quantity    |-> q,
      sale_date   |-> ts,
      customer_id |-> <<0, 0>>,
      region      |-> r,
      sale_amount |-> SaleAmount(499, q, 0)]
     : b \in {1, 2}, q \in {1, 5}, r \in regions,
       ts \in {[month |-> 1, day |-> 1, hour |-> 0],
               [month |-> 1, day |-> 2, hour |-> 12],
               [month |-> 2, day |-> 1, hour |-> 0]}}

\* rows a COPY can have put into dim_book
SampleBooks ==
    {[book_id |-> b, title |-> <<0, b>>, author |-> <<0, b>>, isbn |-> <<0, b>>,
      published_date |-> <<0, b>>, publisher |-> <<0, b>>, genre |-> g,
      price |-> 499]
     : b \in {1, 2}, g \in book_genres}

\* the sales rows numbered as the generator numbers them
Numbered(s) ==
    [i \in 1..Len(s) |-> [s[i] EXCEPT !.sale_id = i, !.customer_id = <<0, i>>]]

\* a warehouse holding tables of any content
Warehouses ==
    {[exist |-> TRUE, dim_book |-> d, fact_sales |-> Numbered(f)]
     : d \in SeqsUpTo(SampleBooks, MaxDimRows), f \in SeqsUpTo(SampleSales, MaxRows)}

\* no script is running; the warehouse is there to be queried
InitViews ==
    /\ pc = "query"
    /\ argv = <<>>
    /\ args = <<>>
    /\ env = NoEnv
    /\ exitStatus = -1
    /\ pkgs = FALSE
    /\ upl = [today |-> 0]
    /\ ld = [today |-> 0, conn |-> "none"]
    /\ phaseLog = <<>>
    /\ uploadLog = <<>>
    /\ loadLog = <<>>
    /\ sqlLog = <<>>
    /\ runs = 0
    /\ ngen = 0
    /\ today = 1
    /\ files = [books |-> NoFile, sales |-> NoFile]
    /\ s3 = [k \in S3Keys |-> NoFile]
    /\ tables \in Warehouses
    /\ dropped = 0
    /\ result = [view |-> "none", rows |-> {}]
    /\ NoBrowser

\* a reader selects all rows of one of the views
SelectView ==
    /\ pc = "query"
    /\ tables.exist
    /\ \E v \in ViewNames : result' = [view |-> v, rows |-> View(v, tables)]
    /\ UNCHANGED <<shellVars, pkgs, pyVars, logVars, worldVars, dropped, webVars>>

\* the views read on tables of any content
SpecViews == InitViews /\ [][SelectView]_vars

(***************************************************************************)
(* Part 3: the dashboard frontend: the two REST clients                    *)
(* (optimizedAnalyticsService.js, which also holds analyticsService.js)    *)
(* and the pages that call them.                                           *)
(***************************************************************************)
\* ---- JSON values as the client sees them ----
\* null (and undefined); objects are records, whose fields may be missing
JsonNull == [json |-> "null"]
IsNull(d) == "json" \in DOMAIN d

\* JavaScript truthiness of a response body: objects and arrays are truthy
Truthy(d) == ~IsNull(d)

\* d.f is there: d is an object and d.f is not undefined
Has(d, f) == Truthy(d) /\ f \in DOMAIN d

\* an array; the record can carry properties set on the array object
JsonArray(s) == [items |-> s]

\* a null or missing entry of a numeric array
NullEntry == -1

\* the longest period array of a time-series response
MaxPoints == 2

\* a processing_info the server supplies
CachedInfo == [processing_time_ms |-> 3, cached |-> TRUE]

\* ---- the two services ----
Services == {"analyticsService", "optimizedAnalyticsService"}

\* the functions a service exports
Functions(svc) ==
    {"getDashboardSummary", "getSalesTimeSeries", "getTopBooks", "getSalesByRegion",
     "getSalesByGenre", "generateTestData"}
    \cup IF svc = "optimizedAnalyticsService" THEN {"checkApiPerformance"} ELSE {}

\* axios.create({baseURL: '/api'})
baseURL == "/api"

\* the path a function requests
Path(svc, fn) ==
    CASE fn = "getDashboardSummary" -> "/analytics/summary/"
      [] fn = "getSalesTimeSeries"  -> IF svc = "optimizedAnalyticsService"
                                       THEN "/analytics/optimized-timeseries/"
                                       ELSE "/analytics/timeseries/"
      [] fn = "getTopBooks"         -> "/analytics/top-books/"
      [] fn = "getSalesByRegion"    -> "/analytics/sales-by-region/"
      [] fn = "getSalesByGenre"     -> "/analytics/sales-by-genre/"
      [] fn = "generateTestData"    -> "/analytics/generate-test-data/"
      [] fn = "checkApiPerformance" -> "/analytics/timeseries/"

\* (mutant) the time series is asked for with a POST
HttpMethodPostingSeries(fn) ==
    IF fn \in {"generateTestData", "getSalesTimeSeries"} THEN "POST" ELSE "GET"

\* analyticsApi.get or analyticsApi.post
HttpMethod(fn) == IF fn = "generateTestData" THEN "POST" ELSE "GET"

\* the arguments a function takes, and their default values
Defaults(svc, fn) ==
    CASE fn = "getDashboardSummary" -> <<>>
      [] fn = "getSalesTimeSeries"  ->
            [interval |-> IF svc = "optimizedAnalyticsService" THEN "auto" ELSE "day",
             days |-> 30]
      [] fn = "getTopBooks"         -> [limit |-> 10, days |-> 30]
      [] fn = "getSalesByRegion"    -> [days |-> 30]
      [] fn = "getSalesByGenre"     -> [days |-> 30]
      [] fn = "generateTestData"    ->
            [num_books |-> 500, num_sales |-> 10000, skip_redshift |-> FALSE]
      [] fn = "checkApiPerformance" -> <<>>

\* the query parameters (or the POST body) of a call: the arguments given,
\* the defaults for the others
Params(svc, fn, given) == given @@ Defaults(svc, fn)

\* the request a call puts on the wire, after the request interceptors:
\* the timing interceptor of optimizedAnalyticsService records the start
Request(cycle, slot, svc, fn, params, now) ==
    [cycle |-> cycle, slot |-> slot, svc |-> svc, fn |-> fn,
     method |-> HttpMethod(fn), url |-> <<baseURL, Path(svc, fn)>>, params |-> params]
    @@ IF svc = "optimizedAnalyticsService"
       THEN [metadata |-> [startTime |-> now]] ELSE <<>>

\* (mutant) the interceptor stamps every body, whatever it holds
TimingInterceptorOverwriting(req, data, now) ==
    IF Truthy(data)
    THEN [processing_info |-> [processing_time_ms |-> now - req.metadata.startTime,
                               cached |-> FALSE]] @@ data
    ELSE data

\* the response interceptor of optimizedAnalyticsService
TimingInterceptor(req, data, now) ==
    IF Truthy(data) /\ ~Has(data, "processing_info")
    THEN data @@ [processing_info |-> [processing_time_ms |-> now - req.metadata.startTime,
                                       cached |-> FALSE]]
    ELSE data

\* a settled promise
Pending == [status |-> "pending", value |-> JsonNull]
Rejected == [status |-> "rejected", value |-> JsonNull]
Fulfilled(v) == [status |-> "fulfilled", value |-> v]

\* what the service function's promise settles to when the request does:
\* response.data after the interceptors, or the error thrown again
Returned(req, settled, now) ==
    IF settled.status = "rejected" THEN Rejected
    ELSE IF req.svc = "optimizedAnalyticsService"
    THEN Fulfilled(TimingInterceptor(req, settled.value, now))
    ELSE settled

\* ---- the pages ----
\* the pages that fetch data when they are mounted and when a filter changes
DataPages == {"Dashboard", "DashboardOptimized", "SalesByRegion", "TopBooks"}

\* "caller" stands for any code that imports a service and calls a function
\* of it with its default arguments
Pages == DataPages \cup {"Settings", "caller"}

\* the service a page imports
ServiceOf(p) ==
    IF p = "DashboardOptimized" THEN "optimizedAnalyticsService" ELSE "analyticsService"

\* the values of the time range selector a page renders
Ranges(p) == IF p = "DashboardOptimized" THEN {7, 30, 90, 180, 365, 730}
                                         ELSE {7, 30, 90, 365}

\* the values of the interval selector of OptimizedTimeRangeSelector
intervals == {"auto", "day", "week", "month", "quarter", "year"}

\* the values of the limit selector of TopBooks
Limits == {5, 10, 20, 50}

\* the ranges checkApiPerformance goes through
PerfRanges == <<30, 90, 365, 730>>

\* error is null, or one of the messages
NoError == "null"
PartialFailure == "Some dashboard data failed to load. You may see partial information."
FetchFailed(p) ==
    CASE p \in {"Dashboard", "DashboardOptimized"} ->
            "Failed to fetch dashboard data. Please try again later."
      [] p = "SalesByRegion" ->
            "Failed to fetch sales by region data. Please try again later."
      [] p = "TopBooks" -> "Failed to fetch top books data. Please try again later."
      [] p = "Settings" ->
            "Failed to generate test data. Please check your configuration and try again."

\* the useState initial values of a page; a page has the slices it declares,
\* the others stay as they are here. mounted: the mount effect has run
InitialState(p) ==
    [mounted        |-> p \notin DataPages,
     timeRange      |-> 30,
     intervalMode   |-> "auto",
     limit          |-> 10,
     loading        |-> p \in DataPages,
     error          |-> NoError,
     summary        |-> JsonNull,
     timeSeriesData |-> <<>>,
     topBooks       |-> JsonArray(<<>>),
     genreData      |-> JsonArray(<<>>),
     processingInfo |-> JsonNull,
     regionData     |-> JsonArray(<<>>),
     books          |-> JsonArray(<<>>),
     result         |-> JsonNull,
     formState      |-> [numBooks |-> 500, numSales |-> 10000, skipRedshift |-> FALSE]]

\* the requests of one fetchData invocation, by the state slice they fill
SlotsOf(p) ==
    CASE p \in {"Dashboard", "DashboardOptimized"} -> {"summary", "timeseries", "top", "genre"}
      [] p = "SalesByRegion" -> {"region"}
      [] p = "TopBooks"      -> {"top"}
      [] OTHER               -> {"call"}

\* the requests fetchData sends before its first await
FirstSlots(p) == IF p = "DashboardOptimized" THEN {"summary"} ELSE SlotsOf(p)

\* the service function behind a slot
FnOf(slot) ==
    CASE slot = "summary"    -> "getDashboardSummary"
      [] slot = "timeseries" -> "getSalesTimeSeries"
      [] slot = "top"        -> "getTopBooks"
      [] slot = "genre"      -> "getSalesByGenre"
      [] slot = "region"     -> "getSalesByRegion"

\* the arguments a page passes, from the values fetchData has closed over
ArgsOf(p, slot, c) ==
    CASE slot = "summary"    -> <<>>
      [] slot = "timeseries" ->
            [interval |-> IF p = "Dashboard" THEN "day" ELSE c.intervalMode,
             days |-> c.timeRange]
      [] slot = "top"        ->
            [limit |-> IF p = "TopBooks" THEN c.limit ELSE 5, days |-> c.timeRange]
      [] slot = "genre"      -> [days |-> c.timeRange]
      [] slot = "region"     -> [days |-> c.timeRange]

\* the request behind a slot of a page's fetchData invocation id
PageRequest(p, id, slot, c, now) ==
    Request(id, slot, ServiceOf(p), FnOf(slot),
            Params(ServiceOf(p), FnOf(slot), ArgsOf(p, slot, c)), now)

\* x || 0 on an entry of a numeric array
OrZero(x) == IF x = NullEntry \/ x = 0 THEN 0 ELSE x

\* timeSeries.f?.[index]
Entry(ts, f, index) ==
    IF f \in DOMAIN ts /\ index <= Len(ts[f]) THEN ts[f][index] ELSE NullEntry

\* timeSeries.period.map((date, index) => ({...}))
formattedTimeSeries(timeSeries) ==
    [index \in 1..Len(timeSeries.period) |->
        [date    |-> timeSeries.period[index],
         revenue |-> OrZero(Entry(timeSeries, "revenue", index)),
         books   |-> OrZero(Entry(timeSeries, "books_sold", index)),
         sales   |-> OrZero(Entry(timeSeries, "num_sales", index))]]

\* value || []
OrEmpty(v) == IF Truthy(v) THEN v ELSE JsonArray(<<>>)

\* (mutant) the whole array is kept
SliceKeepingAll(a, n) == a

\* array.slice(0, n): a new array of the first n entries
Slice(a, n) == JsonArray(SubSeq(a.items, 1, IF Len(a.items) < n THEN Len(a.items) ELSE n))

AllSettled(res) == \A s \in DOMAIN res : res[s].status # "pending"
AnyRejected(res) == \E s \in DOMAIN res : res[s].status = "rejected"

\* Dashboard.jsx: what follows await Promise.allSettled([...]), up to finally
DashboardProcess(state, res) ==
    LET st1 == IF res.summary.status = "fulfilled"
              THEN [state EXCEPT !.summary = res.summary.value] ELSE state
        ts == res.timeseries.value
        st2 == IF res.timeseries.status = "fulfilled"
              THEN [st1 EXCEPT !.timeSeriesData =
                        IF Has(ts, "period") THEN formattedTimeSeries(ts) ELSE <<>>]
              ELSE st1
        st3 == IF res.top.status = "fulfilled"
              THEN [st2 EXCEPT !.topBooks = OrEmpty(res.top.value)] ELSE st2
        st4 == IF res.genre.status = "fulfilled"
              THEN [st3 EXCEPT !.genreData = Slice(OrEmpty(res.genre.value), 5)] ELSE st3
    IN  [st4 EXCEPT !.error = IF AnyRejected(res) THEN PartialFailure ELSE NoError,
                   !.loading = FALSE]

\* the catch and finally blocks of a page's fetchData
Caught(p, state) == [state EXCEPT !.error = FetchFailed(p), !.loading = FALSE]

\* what a settled promise does to a page: the state after the continuation
\* has run, the invocation it belongs to, and the requests it sends next
Continuation(state, cycle, send) == [ui |-> state, cycle |-> cycle, send |-> send]

\* Dashboard.jsx: the four requests are awaited together
DashboardSettled(state, c, slot, ret) ==
    LET res == [c.results EXCEPT ![slot] = ret]
    IN  IF AllSettled(res)
        THEN Continuation(DashboardProcess(state, res),
                          [c EXCEPT !.results = res, !.pc = "done"], {})
        ELSE Continuation(state, [c EXCEPT !.results = res], {})

\* DashboardOptimized.jsx: setError(null) and finally, which run as soon as
\* the remaining two requests are on their way
OptimizedAfterSeries(state) == [state EXCEPT !.error = NoError, !.loading = FALSE]

\* DashboardOptimized.jsx: summary, then the time series, then the remaining
\* two requests, whose outcome only the .then callback looks at
OptimizedSettled(state, c, slot, ret) ==
    LET res == [c.results EXCEPT ![slot] = ret]
        cc  == [c EXCEPT !.results = res]
        ts  == ret.value
    IN  CASE slot = "summary" ->
               IF ret.status = "fulfilled"
               THEN Continuation([state EXCEPT !.summary = ret.value], cc, {"timeseries"})
               ELSE Continuation(Caught("DashboardOptimized", state),
                                 [cc EXCEPT !.pc = "done"], {})
          [] slot = "timeseries" ->
               \* timeSeries.processing_info of null throws a TypeError
               IF ret.status = "fulfilled" /\ Truthy(ts)
               THEN LET s1 == IF Has(ts, "processing_info")
                              THEN [state EXCEPT !.processingInfo = ts.processing_info]
                              ELSE state
                        s2 == [s1 EXCEPT !.timeSeriesData =
                                  IF Has(ts, "period") THEN formattedTimeSeries(ts)
                                                       ELSE <<>>]
                    IN  Continuation(OptimizedAfterSeries(s2),
                                     [cc EXCEPT !.pc = "rest"], {"top", "genre"})
               ELSE Continuation(Caught("DashboardOptimized", state),
                                 [cc EXCEPT !.pc = "done"], {})
          [] OTHER ->
               IF res.top.status # "pending" /\ res.genre.status # "pending"
               THEN LET s1 == IF res.top.status = "fulfilled"
                              THEN [state EXCEPT !.topBooks = OrEmpty(res.top.value)]
                              ELSE state
                        s2 == IF res.genre.status = "fulfilled"
                              THEN [s1 EXCEPT !.genreData =
                                        Slice(OrEmpty(res.genre.value), 5)]
                              ELSE s1
                    IN  Continuation(s2, [cc EXCEPT !.pc = "done"], {})
               ELSE Continuation(state, cc, {})

\* SalesByRegion.jsx and TopBooks: one request, then setRegionData(data) or
\* setBooks(data)
SingleSettled(p, state, c, slot, ret) ==
    LET cc == [c EXCEPT !.results[slot] = ret, !.pc = "done"]
        slice == IF p = "SalesByRegion" THEN "regionData" ELSE "books"
    IN  IF ret.status = "fulfilled"
        THEN Continuation([state EXCEPT ![slice] = ret.value, !.error = NoError,
                                        !.loading = FALSE], cc, {})
        ELSE Continuation(Caught(p, state), cc, {})

\* Settings.jsx: handleGenerateData after the await
GenerateSettled(state, c, slot, ret) ==
    LET cc == [c EXCEPT !.results[slot] = ret, !.pc = "done"]
    IN  IF ret.status = "fulfilled"
        THEN Continuation([state EXCEPT !.result = ret.value, !.loading = FALSE], cc, {})
        ELSE Continuation(Caught("Settings", state), cc, {})

\* a direct call: the function returns or throws; checkApiPerformance reads
\* response.data.period (a TypeError on null) and goes on to the next range
CallSettled(state, c, slot, ret) ==
    LET cc == [c EXCEPT !.results[slot] = ret]
    IN  IF c.fn = "checkApiPerformance" /\ ret.status = "fulfilled" /\ Truthy(ret.value)
           /\ c.index < Len(PerfRanges)
        THEN Continuation(state, [cc EXCEPT !.index = c.index + 1], {"call"})
        ELSE Continuation(state, [cc EXCEPT !.pc = "done"], {})

Settled(p, state, c, slot, ret) ==
    CASE p = "Dashboard"            -> DashboardSettled(state, c, slot, ret)
      [] p = "DashboardOptimized"   -> OptimizedSettled(state, c, slot, ret)
      [] p \in {"SalesByRegion", "TopBooks"} -> SingleSettled(p, state, c, slot, ret)
      [] p = "Settings"             -> GenerateSettled(state, c, slot, ret)
      [] p = "caller"               -> CallSettled(state, c, slot, ret)

\* ---- the browser session, one action per event ----
\* how many times a page runs fetchData (or a caller calls a function)
MaxCycles == 2
\* how far the clock goes
MaxClock == 1

scriptVars == <<shellVars, pkgs, pyVars, logVars, worldVars, dropped, result>>

\* the paths the services request
Paths == UNION {{Path(svc, fn) : fn \in Functions(svc)} : svc \in Services}

\* a time series of MaxPoints dates with every array in full
FullSeries ==
    [period     |-> [i \in 1..MaxPoints |-> i],
     revenue    |-> [i \in 1..MaxPoints |-> 7 * i],
     books_sold |-> [i \in 1..MaxPoints |-> 3],
     num_sales  |-> [i \in 1..MaxPoints |-> 1]]

\* a time series answered from the server's cache, with the dates in
\* descending order, a revenue array that is too short and holds a null,
\* and no other array
RaggedSeries ==
    [period          |-> [i \in 1..MaxPoints |-> MaxPoints + 1 - i],
     revenue         |-> <<NullEntry>>,
     processing_info |-> CachedInfo]

\* the bodies the API answers with when it answers: objects for the summary
\* and the generation, arrays or a time series for the others
Answers ==
    [p \in Paths |->
        CASE p = "/analytics/summary/" -> {[total_revenue |-> 100]}
          [] p \in {"/analytics/timeseries/", "/analytics/optimized-timeseries/"} ->
                {JsonNull, FullSeries, RaggedSeries}
          [] p = "/analytics/generate-test-data/" -> {[status |-> "success"]}
          [] OTHER -> {JsonArray(<<1>>)}]

\* nothing has been delivered yet
NoDelivery == [req |-> <<>>, response |-> Pending, time |-> 0, returned |-> Pending]

\* no script is running and the warehouse is not looked at
NoScript ==
    /\ pc = "browser"
    /\ argv = <<>>
    /\ args = <<>>
    /\ env = NoEnv
    /\ exitStatus = -1
    /\ pkgs = FALSE
    /\ upl = [today |-> 0]
    /\ ld = [today |-> 0, conn |-> "none"]
    /\ phaseLog = <<>>
    /\ uploadLog = <<>>
    /\ loadLog = <<>>
    /\ sqlLog = <<>>
    /\ runs = 0
    /\ ngen = 0
    /\ today = 1
    /\ files = [books |-> NoFile, sales |-> NoFile]
    /\ s3 = [k \in S3Keys |-> NoFile]
    /\ tables = NoTables
    /\ dropped = 0
    /\ result = [view |-> "none", rows |-> {}]

\* a page has been rendered for the first time (its effects have not run),
\* or a module has imported the services
Opened(pages, answers) ==
    /\ NoScript
    /\ page \in pages
    /\ srv \in answers
    /\ ui = InitialState(page)
    /\ cycles = <<>>
    /\ net = {}
    /\ clock = 0
    /\ last = NoDelivery

InitWeb == Opened(Pages, {Answers})

\* an invocation of fetchData, handleGenerateData or a service function,
\* with the values it has closed over
Invocation(fn, state, slots) ==
    [fn |-> fn, pc |-> "await", timeRange |-> state.timeRange,
     intervalMode |-> state.intervalMode, limit |-> state.limit, index |-> 1,
     results |-> [s \in slots |-> Pending]]

\* fetchData up to its first await, run by the effect after the render
\* that the state change (or the mount) has caused
fetchData(state) ==
    LET id == Len(cycles) + 1
        c  == Invocation("fetchData", state, SlotsOf(page))
    IN  /\ Len(cycles) < MaxCycles
        /\ ui' = [state EXCEPT !.loading = TRUE]
        /\ cycles' = Append(cycles, c)
        /\ net' = net \cup {PageRequest(page, id, s, c, clock) : s \in FirstSlots(page)}

\* useEffect on mount
Mount ==
    /\ page \in DataPages
    /\ ~ui.mounted
    /\ fetchData([ui EXCEPT !.mounted = TRUE])
    /\ UNCHANGED <<page, srv, clock, last, scriptVars>>

\* the selectors are on the page; Dashboard.jsx renders only a spinner
\* while it loads without a summary
SelectorRendered ==
    /\ page \in DataPages
    /\ ui.mounted
    /\ page = "Dashboard" => ~(ui.loading /\ IsNull(ui.summary))

\* the user picks another time range: setTimeRange, render, effect
SelectRange ==
    /\ SelectorRendered
    /\ \E v \in Ranges(page) \ {ui.timeRange} : fetchData([ui EXCEPT !.timeRange = v])
    /\ UNCHANGED <<page, srv, clock, last, scriptVars>>

\* the user picks another interval: setIntervalMode, render, effect
SelectInterval ==
    /\ SelectorRendered
    /\ page = "DashboardOptimized"
    /\ \E v \in intervals \ {ui.intervalMode} : fetchData([ui EXCEPT !.intervalMode = v])
    /\ UNCHANGED <<page, srv, clock, last, scriptVars>>

\* the user picks another limit on TopBooks: setLimit, render, effect
SelectLimit ==
    /\ SelectorRendered
    /\ page = "TopBooks"
    /\ \E v \in Limits \ {ui.limit} : fetchData([ui EXCEPT !.limit = v])
    /\ UNCHANGED <<page, srv, clock, last, scriptVars>>

\* the values typed into the form of Settings (min and default of each)
FormStates == [numBooks : {10, 500}, numSales : {100, 10000}, skipRedshift : BOOLEAN]

\* Settings.jsx: handleInputChange
handleInputChange ==
    /\ page = "Settings"
    /\ \E f \in FormStates :
          /\ Cardinality({k \in DOMAIN f : f[k] # ui.formState[k]}) = 1
          /\ ui' = [ui EXCEPT !.formState = f]
    /\ UNCHANGED <<page, srv, cycles, net, clock, last, scriptVars>>

\* Settings.jsx: handleGenerateData up to its await; the submit button is
\* disabled while loading
handleGenerateData ==
    /\ page = "Settings"
    /\ ~ui.loading
    /\ Len(cycles) < MaxCycles
    /\ ui' = [ui EXCEPT !.loading = TRUE, !.result = JsonNull, !.error = NoError]
    /\ cycles' = Append(cycles, Invocation("handleGenerateData", ui, {"call"}))
    /\ net' = net \cup
              {Request(Len(cycles) + 1, "call", "analyticsService", "generateTestData",
                       [num_books     |-> ui.formState.numBooks,
                        num_sales     |-> ui.formState.numSales,
                        skip_redshift |-> ui.formState.skipRedshift], clock)}
    /\ UNCHANGED <<page, srv, clock, last, scriptVars>>

\* the request of a direct call; checkApiPerformance sends one per range
CallRequest(id, svc, fn, index, now) ==
    Request(id, "call", svc, fn,
            IF fn = "checkApiPerformance"
            THEN [interval |-> "auto", days |-> PerfRanges[index]]
            ELSE Params(svc, fn, <<>>), now)

\* a function of a service is called with no arguments
Call ==
    /\ page = "caller"
    /\ Len(cycles) < MaxCycles
    /\ \E svc \in Services : \E fn \in Functions(svc) :
          /\ cycles' = Append(cycles, [Invocation(fn, ui, {"call"}) EXCEPT !.fn = fn])
          /\ net' = net \cup {CallRequest(Len(cycles) + 1, svc, fn, 1, clock)}
    /\ UNCHANGED <<page, srv, ui, clock, last, scriptVars>>

\* a request settles (a response, or an error or timeout): the interceptors
\* and the awaiting code run, up to the next await
Settle ==
    /\ \E r \in net : \E settled \in {Rejected} \cup {Fulfilled(b) : b \in srv[r.url[2]]} :
          LET ret == Returned(r, settled, clock)
              k   == Settled(page, ui, cycles[r.cycle], r.slot, ret)
          IN  /\ ui' = k.ui
              /\ cycles' = [cycles EXCEPT ![r.cycle] = k.cycle]
              /\ net' = (net \ {r}) \cup
                        {IF page = "caller"
                         THEN CallRequest(r.cycle, r.svc, r.fn, k.cycle.index, clock)
                         ELSE PageRequest(page, r.cycle, s, k.cycle, clock) : s \in k.send}
              /\ last' = [req |-> r, response |-> settled, time |-> clock, returned |-> ret]
    /\ UNCHANGED <<page, srv, clock, scriptVars>>

\* time passes
Tick ==
    /\ clock < MaxClock
    /\ clock' = clock + 1
    /\ UNCHANGED <<page, srv, ui, cycles, net, last, scriptVars>>

WebStep ==
    \/ Mount
    \/ SelectRange
    \/ SelectInterval
    \/ SelectLimit
    \/ handleInputChange
    \/ handleGenerateData
    \/ Call
    \/ Settle
    \/ Tick

\* a browser session on one page, or a module calling the services
SpecWeb == InitWeb /\ [][WebStep]_vars

\* the longest list the API answers with
MaxItems == 6

\* a list of MaxItems entries, the answer to top-books or sales-by-genre
\* when there are more books or genres than a page shows
LongList == JsonArray([i \in 1..MaxItems |-> i])

\* bodies that exercise every branch of Dashboard.jsx's processing: lists
\* that are null, and lists longer than the five entries it keeps
ListAnswers ==
    [p \in Paths |->
        CASE p = "/analytics/summary/" -> {[total_revenue |-> 100]}
          [] p \in {"/analytics/timeseries/", "/analytics/optimized-timeseries/"} ->
                {JsonNull, RaggedSeries}
          [] p = "/analytics/generate-test-data/" -> {[status |-> "success"]}
          [] p = "/analytics/top-books/" -> {JsonNull, JsonArray(<<1>>)}
          [] OTHER -> {JsonNull, LongList}]

InitLists == Opened(Pages, {ListAnswers})

\* a browser session in which the API answers with such lists
SpecLists == InitLists /\ [][WebStep]_vars


(***************************************************************************)
(* Reading a command line as the usage text describes it.                  *)
(***************************************************************************)
\* the words standing where an option is expected: a value-taking option
\* is followed by its value, which is no option
RECURSIVE OptionWords(_)
OptionWords(a) ==
    IF a = <<>> THEN <<>>
    ELSE IF a[1] \in ValueOptions
         THEN <<a[1]>> \o OptionWords(SubSeq(a, 3, Len(a)))
         ELSE <<a[1]>> \o OptionWords(Tail(a))

\* the value the last occurrence of the value-taking option o is given
RECURSIVE OptionValue(_, _, _)
OptionValue(a, o, default) ==
    IF a = <<>> THEN default
    ELSE IF a[1] \in ValueOptions
         THEN OptionValue(SubSeq(a, 3, Len(a)), o,
                          IF a[1] = o THEN Arg2(a) ELSE default)
         ELSE OptionValue(Tail(a), o, default)

Options == OptionWords(SubSeq(argv, 3, Len(argv)))

FlagGiven(f) == \E i \in 1..Len(Options) : Options[i] = f

IamRoleGiven == OptionValue(SubSeq(argv, 3, Len(argv)), "--iam-role", "") # ""

\* two positional arguments and no word that is not an option
WellFormed ==
    /\ Len(argv) >= 2
    /\ \A i \in 1..Len(Options) : Options[i] \in ValueOptions \cup FlagOptions

\* a command line the script accepts: well formed, with the IAM role
\* unless the Redshift phases are skipped
ValidInvocation == WellFormed /\ (FlagGiven("--skip-redshift") \/ IamRoleGiven)

\* the phases whose block the run has started
Ran == {phaseLog[i] : i \in 1..Len(phaseLog)}

\* the shell can take a step that changes something
Progressing == ENABLED <<RunStep>>_vars

PhaseRank(p) ==
    CASE p = "generate" -> 1
      [] p = "upload"   -> 2
      [] p = "schema"   -> 3
      [] p = "load"     -> 4

UploadsOf(f) == {i \in 1..Len(uploadLog) : uploadLog[i].file = f}
LoadsOf(tb)  == {i \in 1..Len(loadLog) : loadLog[i].table = tb}
UploadRaised == \E i \in 1..Len(uploadLog) : uploadLog[i].ret = "None"
LoadFailed   == \E i \in 1..Len(loadLog) : ~loadLog[i].ret

(***************************************************************************)
(* C1: in a run the phases are executed in the order generate, upload,     *)
(* schema, load, each at most once; a phase that failed is not executed    *)
(* again, nor is a single upload or load call repeated.                    *)
(***************************************************************************)
C1_PhasesInOrderOnce ==
    /\ \A i, j \in 1..Len(phaseLog) :
          i < j => PhaseRank(phaseLog[i]) < PhaseRank(phaseLog[j])
    /\ \A f \in {"books", "sales"} : Cardinality(UploadsOf(f)) <= 1
    /\ \A tb \in {"dim_book", "fact_sales"} : Cardinality(LoadsOf(tb)) <= 1

\* a finished run of all four phases in which an upload and a load failed
C1_Witness ==
    /\ pc = "done"
    /\ phaseLog = <<"generate", "upload", "schema", "load">>
    /\ UploadRaised
    /\ LoadFailed

(***************************************************************************)
(* C2: every valid invocation comes to its end having run the generation   *)
(* phase iff --skip-generate is absent, the upload phase iff --skip-upload  *)
(* is absent, and the schema and load phases iff --skip-redshift is absent. *)
(***************************************************************************)
PhasesAsFlagged ==
    /\ ("generate" \in Ran) <=> ~FlagGiven("--skip-generate")
    /\ ("upload" \in Ran) <=> ~FlagGiven("--skip-upload")
    /\ ("schema" \in Ran) <=> ~FlagGiven("--skip-redshift")
    /\ ("load" \in Ran) <=> ~FlagGiven("--skip-redshift")

C2_FlagsDecidePhases ==
    [](pc = "argcount" /\ ValidInvocation => <>(pc = "done" /\ PhasesAsFlagged))

(***************************************************************************)
(* C3: without --skip-redshift and without a non-empty --iam-role value    *)
(* the script exits with status 1 and has generated, uploaded and sent     *)
(* nothing; with --skip-redshift a well-formed command line runs to its    *)
(* end whether or not an IAM role is given.                                *)
(***************************************************************************)
NothingDone ==
    /\ phaseLog = <<>> /\ uploadLog = <<>> /\ sqlLog = <<>>
    /\ ngen = 0 /\ files = [books |-> NoFile, sales |-> NoFile]
    /\ \A k \in S3Keys : ~s3[k].exists

C3_IamRoleRequired ==
    /\ [](pc = "argcount" /\ ~FlagGiven("--skip-redshift") /\ ~IamRoleGiven
            => <>(exitStatus = 1 /\ NothingDone))
    /\ [](~FlagGiven("--skip-redshift") /\ ~IamRoleGiven => NothingDone)
    /\ [](pc = "argcount" /\ WellFormed /\ FlagGiven("--skip-redshift")
            => <>(pc = "done"))

(***************************************************************************)
(* C4: an invocation with fewer than two positional arguments, or with a   *)
(* word that is no option where an option is expected, ends with exit      *)
(* status 1 and runs no phase: until it has ended it keeps taking steps,    *)
(* and it never reaches a phase.                                           *)
(***************************************************************************)
C4_InvalidInvocationExits1 ==
    ~WellFormed =>
        /\ NothingDone
        /\ pc \in {"commands", "argcount", "parse", "exited"}
        /\ pc = "exited" => exitStatus = 1
        /\ pc # "exited" => Progressing

\* the script has refused an unknown option that follows a flag it accepted
C4_Witness ==
    /\ ~WellFormed
    /\ Len(argv) >= 2
    /\ env.SKIP_UPLOAD
    /\ pc = "exited"
    /\ exitStatus = 1

(***************************************************************************)
(* C5: when upload_file raises for one of the two files, upload_to_s3      *)
(* returns None and is not called again for that file, the other file's    *)
(* upload is still attempted, and the run goes on through the following    *)
(* phases to its end.                                                      *)
(***************************************************************************)
C5_UploadFailureDoesNotAbort ==
    UploadRaised =>
        /\ \A f \in {"books", "sales"} : Cardinality(UploadsOf(f)) <= 1
        /\ pc # "upload_sales" =>
              \A f \in {"books", "sales"} : Cardinality(UploadsOf(f)) = 1
        /\ pc # "exited"
        /\ pc # "done" => Progressing
        /\ pc = "done" /\ ~env.SKIP_REDSHIFT =>
              {"schema", "load"} \subseteq Ran

\* the books upload raised, the sales upload was made, and the Redshift
\* phases followed
C5_Witness ==
    /\ pc = "done"
    /\ \E i \in 1..Len(uploadLog) :
          uploadLog[i].file = "books" /\ uploadLog[i].ret = "None"
    /\ \E i \in 1..Len(uploadLog) :
          uploadLog[i].file = "sales" /\ uploadLog[i].ret = "url"
    /\ "load" \in Ran

(***************************************************************************)
(* C6: the fact table is written once per batch load: a run issues at most *)
(* one COPY into analytics.fact_sales and at most one into                 *)
(* analytics.dim_book, and at the end of a run that loaded the fact table  *)
(* the table holds exactly the rows of the sales batch that run loaded,    *)
(* with no row left over or repeated from an earlier run.                  *)
(***************************************************************************)
CopiesInto(tb) ==
    {i \in 1..Len(sqlLog) : sqlLog[i].stmt = "COPY" /\ sqlLog[i].table = tb}

Copied(tb) == \E i \in CopiesInto(tb) : sqlLog[i].ok

SchemaCreated ==
    \E i \in 1..Len(sqlLog) : sqlLog[i].stmt = "DDL" /\ sqlLog[i].ok

C6_WriteOncePerBatchLoad ==
    /\ \A tb \in {"dim_book", "fact_sales"} : Cardinality(CopiesInto(tb)) <= 1
    /\ pc = "done" /\ Copied("fact_sales") =>
          tables.fact_sales = s3[LoadKey("sales", ld.today)].rows

(***************************************************************************)
(* C7: sale facts are append-only: no step of the program removes or       *)
(* changes a row that is in analytics.fact_sales.                          *)
(***************************************************************************)
IsPrefix(s, t) == Len(s) <= Len(t) /\ \A i \in 1..Len(s) : t[i] = s[i]

C7_AppendOnly == [][IsPrefix(tables.fact_sales, tables'.fact_sales)]_vars

(***************************************************************************)
(* C7 as amended: the only step that removes rows of analytics.fact_sales  *)
(* is a schema step that succeeds, which removes them all (DROP TABLE,     *)
(* CREATE TABLE); every other step leaves the rows in place and unchanged, *)
(* the COPY adding its rows behind them.                                   *)
(***************************************************************************)
C7_AppendOnlyUntilSchemaStep ==
    [][\/ IsPrefix(tables.fact_sales, tables'.fact_sales)
       \/ /\ pc = "schema"
          /\ tables'.fact_sales = <<>>
          /\ sqlLog' = Append(sqlLog, Statement("DDL", "all", TRUE))]_vars

\* a later run's schema step has removed the rows an earlier run loaded,
\* and the load after it has put rows into the new table
C7_Witness ==
    /\ runs >= 2
    /\ dropped > 0
    /\ SchemaCreated
    /\ Copied("fact_sales")
    /\ tables.fact_sales # <<>>

(***************************************************************************)
(* C10: at the end of a run whose load phase was executed, every row of    *)
(* analytics.fact_sales has the book_id of a row of analytics.dim_book,    *)
(* also when one of the two load_data_to_redshift calls returned False.    *)
(***************************************************************************)
C10_FactBooksInDim ==
    pc = "done" /\ "load" \in Ran =>
        \A i \in 1..Len(tables.fact_sales) :
            \E j \in 1..Len(tables.dim_book) :
                tables.dim_book[j].book_id = tables.fact_sales[i].book_id

(***************************************************************************)
(* C8: every aggregate view is recomputable from the fact table alone:     *)
(* with the same analytics.fact_sales, each of the five views has the same *)
(* rows whatever analytics.dim_book holds.                                 *)
(***************************************************************************)
SameWithAnyBooks ==
    \A d \in SeqsUpTo(SampleBooks, MaxDimRows) :
        result.rows = View(result.view, [tables EXCEPT !.dim_book = d])

C8_ViewsFromFactAlone == result.view \in ViewNames => SameWithAnyBooks

(***************************************************************************)
(* C8 as amended: sales_by_day, sales_by_region and monthly_sales are      *)
(* recomputable from the fact table alone: with the same                   *)
(* analytics.fact_sales each has the same rows whatever analytics.dim_book *)
(* holds. top_books and sales_by_genre join analytics.dim_book and depend  *)
(* on it.                                                                  *)
(***************************************************************************)
FactOnlyViews == {"sales_by_day", "sales_by_region", "monthly_sales"}

C8_FactOnlyViewsFromFactAlone == result.view \in FactOnlyViews => SameWithAnyBooks

\* sales_by_region read on a fact table with sales of a book that dim_book
\* does not hold
C8_Witness ==
    /\ result.view = "sales_by_region"
    /\ result.rows # {}
    /\ tables.dim_book # <<>>
    /\ \E i \in 1..Len(tables.fact_sales) :
          \A j \in 1..Len(tables.dim_book) :
              tables.dim_book[j].book_id # tables.fact_sales[i].book_id

(***************************************************************************)
(* C9: in sales_by_day, sales_by_region and monthly_sales every            *)
(* fact_sales row is counted in exactly one view row: the counts of the    *)
(* view rows add up to the number of fact_sales rows, the quantities to    *)
(* the sum of quantity and the revenues to the sum of sale_amount.         *)
(***************************************************************************)
CountCol(v) == IF v = "sales_by_region" THEN "transaction_count" ELSE "num_sales"
QuantityCol(v) == IF v = "sales_by_region" THEN "books_sold" ELSE "total_books_sold"

ViewTotal(col) == SumValues({<<r, r[col]>> : r \in result.rows})

C9_ViewsCountEveryRowOnce ==
    result.view \in FactOnlyViews =>
        LET f == tables.fact_sales
        IN  /\ ViewTotal(CountCol(result.view)) = Len(f)
            /\ ViewTotal(QuantityCol(result.view)) = SumCol(f, 1..Len(f), "quantity")
            /\ ViewTotal("total_revenue") = SumCol(f, 1..Len(f), "sale_amount")

\* monthly_sales read on two sales of the same book, made on different days
\* of one month
C9_Witness ==
    /\ result.view = "monthly_sales"
    /\ Len(tables.fact_sales) = 2
    /\ tables.fact_sales[1].book_id = tables.fact_sales[2].book_id
    /\ tables.fact_sales[1].sale_date.day # tables.fact_sales[2].sale_date.day
    /\ \E r \in result.rows : r.num_sales = 2

(***************************************************************************)
(* C11: a generation that ran leaves books.csv with exactly one record for *)
(* each book_id in 1..NUM_BOOKS and sales.csv with exactly one record for  *)
(* each sale_id in 1..NUM_SALES; every sale's book_id is the book_id of a  *)
(* record of books.csv and every quantity is in 1..5.                      *)
(***************************************************************************)
OneRecordEach(rows, col, n) ==
    /\ Len(rows) = n
    /\ \A id \in 1..n : Cardinality({i \in 1..Len(rows) : rows[i][col] = id}) = 1

C11_GeneratedRecords ==
    /\ pc = "upload" /\ "generate" \in Ran /\ pkgs =>
          files.books.exists /\ files.sales.exists
    /\ files.books.exists \/ files.sales.exists =>
          /\ files.books.header = booksHeader
          /\ files.sales.header = salesHeader
          /\ OneRecordEach(files.books.rows, "book_id", NUM_BOOKS)
          /\ OneRecordEach(files.sales.rows, "sale_id", NUM_SALES)
          /\ \A i \in 1..Len(files.sales.rows) :
                /\ \E j \in 1..Len(files.books.rows) :
                      files.books.rows[j].book_id = files.sales.rows[i].book_id
                /\ files.sales.rows[i].quantity \in 1..5

\* the second generation on the machine has just rewritten both files, with
\* sales of different books and of different quantities
C11_Witness ==
    /\ pc = "upload"
    /\ "generate" \in Ran
    /\ ngen = 2
    /\ \E i, j \in 1..Len(files.sales.rows) :
          /\ files.sales.rows[i].book_id # files.sales.rows[j].book_id
          /\ files.sales.rows[i].quantity # files.sales.rows[j].quantity

(***************************************************************************)
(* C19: the option loop terminates for every argument list: a run that     *)
(* has entered the loop leaves it, with all arguments consumed (going on   *)
(* to the password prompt) or with exit status 1.                          *)
(***************************************************************************)
C19_OptionLoopTerminates ==
    [](pc = "parse" => <>(pc = "password" \/ (pc = "exited" /\ exitStatus = 1)))

(***************************************************************************)
(* C20: when the schema block has ended in failure (no DDL batch went      *)
(* through), the run stops there: it sends no COPY, does not start the     *)
(* load block, and does not end with status 0.                             *)
(***************************************************************************)
\* the packages being importable, the failure is a connection or SQL error
SchemaFailed == pkgs /\ "schema" \in Ran /\ pc # "schema" /\ ~SchemaCreated

C20_SchemaFailureStopsRun ==
    SchemaFailed =>
        /\ CopiesInto("dim_book") = {} /\ CopiesInto("fact_sales") = {}
        /\ "load" \notin Ran
        /\ exitStatus # 0

GivenOrZero(ts, f, i) ==
    IF f \in DOMAIN ts /\ i \in 1..Len(ts[f]) /\ ts[f][i] # NullEntry THEN ts[f][i] ELSE 0

ExpectedPoints(ts) ==
    IF Has(ts, "period")
    THEN [i \in 1..Len(ts.period) |->
            [date    |-> ts.period[i],
             revenue |-> GivenOrZero(ts, "revenue", i),
             books   |-> GivenOrZero(ts, "books_sold", i),
             sales   |-> GivenOrZero(ts, "num_sales", i)]]
    ELSE <<>>

\* in this step invocation id of fetchData gets to look at its fulfilled
\* time-series response: Dashboard.jsx when all four requests have settled,
\* DashboardOptimized.jsx when the time series arrives
SeriesProcessed(id) ==
    /\ cycles'[id].results.timeseries.status = "fulfilled"
    /\ IF page = "Dashboard"
       THEN cycles[id].pc = "await" /\ cycles'[id].pc = "done"
       ELSE cycles[id].results.timeseries.status = "pending"

SeriesNormalized ==
    page \in {"Dashboard", "DashboardOptimized"} =>
        \A id \in 1..Len(cycles) :
            SeriesProcessed(id) =>
                ui'.timeSeriesData = ExpectedPoints(cycles'[id].results.timeseries.value)

C14_TimeSeriesNormalized == [][SeriesNormalized]_vars

(***************************************************************************)
(* C15: every request of the two services goes to one of the six           *)
(* documented endpoints, with the documented method.                       *)
(***************************************************************************)
DocumentedEndpoints ==
    {<<<<"/api", "/analytics/summary/">>, "GET">>,
     <<<<"/api", "/analytics/timeseries/">>, "GET">>,
     <<<<"/api", "/analytics/top-books/">>, "GET">>,
     <<<<"/api", "/analytics/sales-by-region/">>, "GET">>,
     <<<<"/api", "/analytics/sales-by-genre/">>, "GET">>,
     <<<<"/api", "/analytics/generate-test-data/">>, "POST">>}

C15_DocumentedEndpointsOnly == \A r \in net : <<r.url, r.method>> \in DocumentedEndpoints

(***************************************************************************)
(* C16: whatever the user selects on a page, the interval parameter of     *)
(* every time-series request the page sends is day, week or month.         *)
(***************************************************************************)
C16_DocumentedIntervals ==
    page \in DataPages =>
        \A r \in net : r.fn = "getSalesTimeSeries" =>
            r.params.interval \in {"day", "week", "month"}

(***************************************************************************)
(* C17: on a data page, once its first effect has run, loading is true     *)
(* exactly while a request of the page is in flight.                       *)
(***************************************************************************)
C17_LoadingWhileInFlight ==
    page \in DataPages /\ ui.mounted => (ui.loading <=> net # {})

(***************************************************************************)
(* C18: when an invocation of a data page's fetchData has finished, error  *)
(* is set if one of its requests was rejected and null if none was.        *)
(***************************************************************************)
ErrorTellsRejection ==
    page \in DataPages =>
        \A id \in 1..Len(cycles) :
            cycles[id].pc # "done" /\ cycles'[id].pc = "done" =>
                (ui'.error # NoError <=> AnyRejected(cycles'[id].results))

C18_ErrorTellsRejection == [][ErrorTellsRejection]_vars

(***************************************************************************)
(* C21: a run reaches "Setup complete!" and status 0 only if every phase   *)
(* it did not skip has succeeded: both files uploaded, the schema created, *)
(* both loads returned True.                                               *)
(***************************************************************************)
UploadedBoth ==
    \A f \in {"books", "sales"} : \E i \in UploadsOf(f) : uploadLog[i].ret = "url"

LoadedBoth ==
    \A tb \in {"dim_book", "fact_sales"} : \E i \in LoadsOf(tb) : loadLog[i].ret

C21_SetupCompleteOnlyOnSuccess ==
    pc = "done" /\ exitStatus = 0 =>
        /\ env.SKIP_UPLOAD = FALSE => UploadedBoth
        /\ env.SKIP_REDSHIFT = FALSE => SchemaCreated /\ LoadedBoth

(***************************************************************************)
(* C22: in every call of load_data_to_redshift a COPY is executed only     *)
(* after head_object has succeeded on the very key the COPY reads; when    *)
(* head_object fails the call returns False and no statement is sent; and  *)
(* on every way out the cursor it opened is closed last, before returning. *)
(***************************************************************************)
SqlOps == {"COPY", "SELECT COUNT"}

CheckedCopy(c) ==
    \A j \in 1..Len(c) : c[j].op = "COPY" =>
        \E i \in 1..(j - 1) : c[i].op = "head_object" /\ c[i].ok /\ c[i].key = c[j].key

HeadFailed(c) == \E i \in 1..Len(c) : c[i].op = "head_object" /\ ~c[i].ok

CursorClosed(c) ==
    /\ Cardinality({i \in 1..Len(c) : c[i].op = "conn.cursor"}) = 1
    /\ c[Len(c)].op = "cursor.close"

C22_CopyAfterHeadCursorClosed ==
    \A n \in 1..Len(loadLog) :
        /\ CheckedCopy(loadLog[n].calls)
        /\ HeadFailed(loadLog[n].calls) =>
               /\ ~loadLog[n].ret
               /\ \A j \in 1..Len(loadLog[n].calls) : loadLog[n].calls[j].op \notin SqlOps
        /\ CursorClosed(loadLog[n].calls)

\* a run in which one load failed at head_object, another at the COPY, and
\* a run before it loaded a table with success
C22_Witness ==
    /\ Len(loadLog) = 2
    /\ HeadFailed(loadLog[1].calls)
    /\ \E j \in 1..Len(loadLog[2].calls) :
           loadLog[2].calls[j].op = "COPY" /\ ~loadLog[2].calls[j].ok
    /\ Len(tables.dim_book) > 0

(***************************************************************************)
(* C23: in a run that uploads and loads, the key each load checks and      *)
(* copies from is the key the upload of the same file wrote to.            *)
(***************************************************************************)
C23_LoadKeyIsUploadKey ==
    \A i \in 1..Len(uploadLog) : \A n \in 1..Len(loadLog) :
        loadLog[n].table = TableOf(uploadLog[i].file) =>
            loadLog[n].key = uploadLog[i].key

(***************************************************************************)
(* C24: an invocation of Dashboard.jsx's fetchData sends its four requests *)
(* together and touches the state only when all four have settled; then    *)
(* summary, timeSeriesData, topBooks and genreData are each replaced if    *)
(* their request was fulfilled and kept if it was rejected, genreData is   *)
(* the first five entries of its response in order, error is the partial   *)
(* failure message if a request was rejected and null if none was, loading *)
(* is false, and nothing else of the state changes.                        *)
(***************************************************************************)
DashboardFns ==
    {"getDashboardSummary", "getSalesTimeSeries", "getTopBooks", "getSalesByGenre"}

\* the invocation that starts in this step sends exactly the four requests
IssuedTogether ==
    Len(cycles') = Len(cycles) + 1 =>
        LET sent == net' \ net
        IN  /\ Cardinality(sent) = 4
            /\ {r.fn : r \in sent} = DashboardFns
            /\ \A r \in sent : r.cycle = Len(cycles')

\* invocation id gets past its await in this step
Completes(id) == cycles[id].pc = "await" /\ cycles'[id].pc = "done"

\* an invocation is past its await exactly when none of its four requests
\* is pending, and a response that is not the last of its invocation
\* changes nothing of the state
WaitsForAll ==
    /\ \A id \in 1..Len(cycles') :
           cycles'[id].pc = "done" <=> \A s \in DOMAIN cycles'[id].results :
                                          cycles'[id].results[s].status # "pending"
    /\ (Len(cycles') = Len(cycles) /\ \A id \in 1..Len(cycles) : ~Completes(id))
           => ui' = ui

\* the first five entries of a list, or of the empty list in place of null
FirstFive(v) ==
    IF IsNull(v) THEN JsonArray(<<>>)
    ELSE JsonArray([i \in 1..(IF Len(v.items) < 5 THEN Len(v.items) ELSE 5) |-> v.items[i]])

\* the slices of the state fetchData writes after its await
Written == {"summary", "timeSeriesData", "topBooks", "genreData", "error", "loading"}

FrameOf(id) ==
    LET res == cycles'[id].results
        ok(s) == res[s].status = "fulfilled"
    IN  /\ ui'.summary = IF ok("summary") THEN res.summary.value ELSE ui.summary
        /\ ui'.timeSeriesData = IF ok("timeseries")
                                THEN ExpectedPoints(res.timeseries.value)
                                ELSE ui.timeSeriesData
        /\ ui'.topBooks = IF ~ok("top") THEN ui.topBooks
                          ELSE IF IsNull(res.top.value) THEN JsonArray(<<>>)
                          ELSE res.top.value
        /\ ui'.genreData = IF ok("genre") THEN FirstFive(res.genre.value) ELSE ui.genreData
        /\ Len(ui'.genreData.items) <= 5
        /\ ui'.error = IF \E s \in DOMAIN res : res[s].status = "rejected"
                       THEN PartialFailure ELSE NoError
        /\ ui'.loading = FALSE
        /\ \A f \in DOMAIN ui \ Written : ui'[f] = ui[f]

DashboardCycle ==
    page = "Dashboard" =>
        /\ IssuedTogether
        /\ WaitsForAll
        /\ \A id \in 1..Len(cycles) : Completes(id) => FrameOf(id)

C24_DashboardCycleFrame == [][DashboardCycle]_vars

\* a finished invocation whose genre response had more than five entries
\* and whose top-books request was rejected
C24_Witness ==
    /\ page = "Dashboard"
    /\ Len(cycles) = 2
    /\ cycles[2].pc = "done"
    /\ cycles[2].results.top.status = "rejected"
    /\ cycles[2].results.genre.status = "fulfilled"
    /\ Has(cycles[2].results.genre.value, "items")
    /\ Len(cycles[2].results.genre.value.items) > 5
    /\ Len(ui.genreData.items) = 5
    /\ ui.topBooks = JsonArray(<<1>>)
    /\ ui.error = PartialFailure
    /\ ~ui.loading

====
